---- MODULE Spec2Model ----
(***************************************************************************)
(* The Nebula landing page: countdown.js and main.js as state machines.    *)
(*                                                                         *)
(* The modules of the page share no state, so each one has a specification *)
(* of its own over its own variables (SpecCountdown, SpecForm,             *)
(* SpecParallax, SpecBoot); the variables of the other modules stay at     *)
(* their initial values there.                                             *)
(*                                                                         *)
(* Text is a sequence of one-character strings, "00" is <<"0","0">>.       *)
(* Time is in milliseconds, as Date.now() and Date.prototype.getTime().    *)
(***************************************************************************)
EXTENDS Integers, Sequences, FiniteSets, TLC

(***************************************************************************)
(* Bounds of the model.                                                    *)
(***************************************************************************)
\* scheduled interval callbacks explored after countdown init
MaxTicks == 3

(***************************************************************************)
(* countdown.js                                                            *)
(***************************************************************************)
VARIABLES
    cdPc,          \* "load": DOMContentLoaded not fired yet; "ready": init() has run
    cdContainer,   \* document.querySelector('.countdown[data-target-date]') finds an element
    cdEls,         \* which of cd-days, cd-hours, cd-mins, cd-secs exist ("d","h","m","s")
    targetDate,    \* new Date(container.dataset.targetDate).getTime(), NaN for an unparsable attribute
    prev,          \* prev = { d, h, m, s }
    intervalId,    \* the variable intervalId, Undefined until setInterval returns
    intervals,     \* handles of the repeating timers the host still runs
    textContent,   \* textContent of the four digit elements
    written,       \* digit elements whose textContent the last tick assigned
    flipped,       \* digit elements whose flip animation the last tick retriggered
    ariaLabel,     \* aria-label of the container
    now,           \* what Date.now() returned in the last tick
    ticks,         \* observation: how many times tick() has run
    finished       \* observation: some tick has taken the diff <= 0 branch

cdVars == <<cdPc, cdContainer, cdEls, targetDate, prev, intervalId, intervals,
            textContent, written, flipped, ariaLabel, now, ticks, finished>>

\* the value of a variable never assigned, and the handle clearInterval ignores
Undefined == 0

\* the number NaN: the time value of an invalid Date and everything computed from it
NaN == -2

Keys == {"d", "h", "m", "s"}

\* the time of the launch in the attribute, and the readings of the wall clock;
\* Date.now() is the system clock, which the host may set back between two ticks
TheTarget == 90061500
Targets == {TheTarget, NaN}
Nows == {0, 3661500, 90000500, 90001500, 90060500, 90060501, 90061499, 90061500, 90062500}

DigitChar == <<"0", "1", "2", "3", "4", "5", "6", "7", "8", "9">>

RECURSIVE NumberToString(_)
\* String(n) for an integer n >= 0, and for NaN
NumberToString(n) ==
    IF n = NaN THEN <<"N", "a", "N">>
    ELSE IF n < 10 THEN <<DigitChar[n + 1]>>
    ELSE Append(NumberToString(n \div 10), DigitChar[(n % 10) + 1])

\* pad2 = (n) => String(n).padStart(2, '0')
pad2(n) ==
    LET s == NumberToString(n) IN IF Len(s) < 2 THEN <<"0">> \o s ELSE s

\* a !== b on numbers: NaN differs from everything, itself included
StrictNeq(a, b) == a = NaN \/ b = NaN \/ a # b

\* an updateDigit that writes and flips whatever the old value
DigitWritten_Always(newVal, oldVal) == TRUE

\* updateDigit(el, newVal, oldVal): the element is written and flipped only on a change
DigitWritten(newVal, oldVal) == StrictNeq(newVal, oldVal)

\* Math.floor(x / y) for y > 0, NaN propagating
FloorDiv(x, y) == IF x = NaN THEN NaN ELSE x \div y

\* x % y for x >= 0 and y > 0, NaN propagating
Rem(x, y) == IF x = NaN THEN NaN ELSE x % y

\* targetDate.getTime() - Date.now()
Diff(t, n) == IF t = NaN THEN NaN ELSE t - n

\* the components without the wrap of hours, minutes and seconds
Components_NoWrap(diff) ==
    LET totalSecs == FloorDiv(diff, 1000) IN
    [d |-> FloorDiv(totalSecs, 86400),
     h |-> FloorDiv(totalSecs, 3600),
     m |-> FloorDiv(totalSecs, 60),
     s |-> totalSecs]

\* the components tick() computes from diff
Components(diff) ==
    LET totalSecs == FloorDiv(diff, 1000) IN
    [d |-> FloorDiv(totalSecs, 86400),
     h |-> FloorDiv(Rem(totalSecs, 86400), 3600),
     m |-> FloorDiv(Rem(totalSecs, 3600), 60),
     s |-> Rem(totalSecs, 60)]

\* diff <= 0, false for NaN
IsFinished(diff) == diff # NaN /\ diff <= 0

\* clearInterval(id): a handle that names no timer, Undefined included, is ignored
ClearInterval(set, id) == set \ {id}

\* the handle setInterval returns: the host's next unused one
NewInterval(set) == IF set = {} THEN 1 ELSE 1 + CHOOSE x \in set : \A y \in set : y <= x

\* the timers left after a run of tick() with Date.now() = n
TickIntervals(n) ==
    IF IsFinished(Diff(targetDate, n)) THEN ClearInterval(intervals, intervalId) ELSE intervals

\* tick(): the effect of one run with Date.now() = n on the page
Tick(n) ==
    LET diff == Diff(targetDate, n) IN
    /\ now' = n
    /\ ticks' = ticks + 1
    /\ IF IsFinished(diff)
       THEN /\ textContent' = [k \in Keys |-> <<"0", "0">>]
            /\ ariaLabel' = "We have launched!"
            /\ finished' = TRUE
            /\ written' = Keys
            /\ flipped' = {}
            /\ UNCHANGED prev
       ELSE LET c == Components(diff) IN
            /\ prev' = c
            /\ written' = {k \in Keys : DigitWritten(c[k], prev[k])}
            /\ flipped' = {k \in Keys : DigitWritten(c[k], prev[k])}
            /\ textContent' = [k \in Keys |->
                   IF DigitWritten(c[k], prev[k]) THEN pad2(c[k]) ELSE textContent[k]]
            /\ UNCHANGED <<ariaLabel, finished>>

\* init() on DOMContentLoaded: nothing without the container or a digit element,
\* else the first tick at once and then the repeating timer
CountdownInit ==
    /\ cdPc = "load"
    /\ cdPc' = "ready"
    /\ UNCHANGED <<cdContainer, cdEls, targetDate>>
    /\ IF ~cdContainer \/ cdEls # Keys
       THEN UNCHANGED <<prev, intervalId, intervals, textContent, written, flipped, ariaLabel,
                        now, ticks, finished>>
       ELSE \E n \in Nows :
            /\ Tick(n)
            /\ intervalId' = NewInterval(TickIntervals(n))
            /\ intervals' = TickIntervals(n) \cup {NewInterval(TickIntervals(n))}

\* the host runs the timer's callback: tick() again, while the timer is active
IntervalTick ==
    /\ cdPc = "ready"
    /\ intervalId \in intervals
    /\ ticks < 1 + MaxTicks
    /\ \E n \in Nows : Tick(n) /\ intervals' = TickIntervals(n)
    /\ UNCHANGED <<cdPc, cdContainer, cdEls, targetDate, intervalId>>

\* remembered values that a computed component can equal
InitialPrev_Zeros == [k \in Keys |-> 0]

\* const prev = { d: -1, h: -1, m: -1, s: -1 }: no component is ever negative
InitialPrev == [k \in Keys |-> -1]

InitialText == <<"-", "-">>

CountdownInit0 ==
    /\ cdPc = "load"
    /\ cdContainer \in BOOLEAN
    /\ cdEls \in SUBSET Keys
    /\ targetDate \in Targets
    /\ prev = InitialPrev
    /\ intervalId = Undefined
    /\ intervals = {}
    /\ textContent = [k \in Keys |-> InitialText]
    /\ written = {}
    /\ flipped = {}
    /\ ariaLabel = ""
    /\ now = 0
    /\ ticks = 0
    /\ finished = FALSE

(***************************************************************************)
(* main.js, 1. Utils                                                       *)
(***************************************************************************)
\* the characters \s matches, of those the inputs of the model use
WhiteSpace == {" "}

RECURSIVE TrimStart(_)
TrimStart(s) == IF s # <<>> /\ Head(s) \in WhiteSpace THEN TrimStart(Tail(s)) ELSE s

RECURSIVE TrimEnd(_)
TrimEnd(s) ==
    IF s # <<>> /\ s[Len(s)] \in WhiteSpace THEN TrimEnd(SubSeq(s, 1, Len(s) - 1)) ELSE s

\* String.prototype.trim
Trim(s) == TrimEnd(TrimStart(s))

\* /^[^\s@]+@[^\s@]+\.[^\s@]{2,}$/.test(s): an '@' at i and a '.' at j split s into
\* three runs of characters other than white space and '@', the last of 2 or more
RegexTest(s) ==
    \E i \in 1..Len(s), j \in 1..Len(s) :
        /\ s[i] = "@"
        /\ s[j] = "."
        /\ 1 < i
        /\ i + 1 < j
        /\ j + 2 <= Len(s)
        /\ \A k \in 1..Len(s) : k # i => s[k] \notin (WhiteSpace \cup {"@"})

\* a mutation of isValidEmail: every address accepted
isValidEmail_Always(email) == TRUE

\* Utils.isValidEmail
isValidEmail(email) == RegexTest(Trim(email))

VARIABLES
    emInput,       \* the string a caller passes to Utils.isValidEmail
    emResult       \* "none" before the call, then "accepted" for true and "rejected" for false

emVars == <<emInput, emResult>>

MaxEmailLen == 6

\* the characters of the strings tried: a letter, the two separators, white space
EmailChars == {"a", "@", ".", " "}

\* the strings the specification names, which use other characters too
EmailExamples ==
    {<<"a", "@", "b", ".", "c", "o">>,
     <<"n", "o", "-", "a", "t", "-", "s", "i", "g", "n">>,
     <<"a", "@", "b">>,
     <<"a", "@", "b", ".">>,
     <<"a", "@", "b", ".", "c", ".", "d">>,
     <<" ", "a", "@", "b", ".", "c", "o", " ">>}

EmailInputs == EmailExamples \cup UNION {[1..n -> EmailChars] : n \in 0..MaxEmailLen}

\* a call of Utils.isValidEmail(emInput)
EmailCall ==
    /\ emResult = "none"
    /\ emResult' = IF isValidEmail(emInput) THEN "accepted" ELSE "rejected"
    /\ UNCHANGED emInput

EmailInit0 ==
    /\ emInput \in EmailInputs
    /\ emResult = "none"

EmailIdle == emInput = <<>> /\ emResult = "none"

(***************************************************************************)
(* main.js, 4. SubscribeForm                                               *)
(***************************************************************************)
VARIABLES
    sfDom,         \* which elements the document holds, of SfIds
    sfPc,          \* "load": init() not called yet; "ready": it has been
    sfListeners,   \* listeners init() attached: "submit" on the form, "input" on the field
    value,         \* emailInput.value
    wrapClasses,   \* validation classes of fieldWrap, of {"is-valid", "is-error"}
    msg,           \* messageEl.textContent
    msgClasses,    \* classes of messageEl besides subscribe-form__message
    btnDisabled,   \* submitBtn.disabled
    btnText,       \* textContent of the button's .subscribe-form__btn-text
    focused,       \* emailInput.focus() has been called
    calls,         \* arguments of the sendToApi calls not settled yet, oldest first
    outcome        \* observation: how the last handler run ended

sfVars == <<sfDom, sfPc, sfListeners, value, wrapClasses, msg, msgClasses,
            btnDisabled, btnText, focused, calls, outcome>>

\* getElementById('subscribeForm'), 'emailInput', 'emailWrap', 'formMessage',
\* 'subscribeBtn', and the button's querySelector('.subscribe-form__btn-text')
SfIds == {"subscribeForm", "emailInput", "emailWrap", "formMessage", "subscribeBtn", "btnText"}

\* what the user may have in the field
Inputs ==
    { <<>>,
      <<" ">>,
      <<"a", "@", "b", ".", "c", "o">>,
      <<" ", "a", "@", "b", ".", "c", "o", " ">>,
      <<"a", "@", "b">>,
      <<"a", "@", "b", ".">>,
      <<"n", "o", "-", "a", "t">> }

\* the texts the form shows, in ASCII (the page has an ellipsis, a dash and an emoji);
\* the success text carries the address it was sent
NoMsg == [id |-> "", email |-> <<>>]
EmptyMsg == [id |-> "Please enter your email address.", email |-> <<>>]
FormatMsg == [id |-> "Please enter a valid email address.", email |-> <<>>]
SendingMsg == [id |-> "Transmitting signal into the cosmos...", email |-> <<>>]
ListMsg(email) == [id |-> "You're on the list! We'll notify ${email} at launch.", email |-> email]
OopsMsg == [id |-> "Oops - something went wrong. Please try again.", email |-> <<>>]
LostMsg == [id |-> "Connection lost. Please check your network and retry.", email |-> <<>>]

\* setMessage(text, type): the classes messageEl is left with
MessageClasses(type) == IF type # "" THEN {"is-" \o type, "is-visible"} ELSE {}

\* sendToApi's timer callback: resolve({ ok: success, message: ... })
ApiResult(email, success) ==
    [ok |-> success, message |-> IF success THEN ListMsg(email) ELSE OopsMsg]

\* SubscribeForm.init: "noop" without the form, "throws" when emailInput is null
\* (the submit listener is attached by then), else "ok"
SubscribeFormInitResult(dom) ==
    IF "subscribeForm" \notin dom THEN [listeners |-> {}, ends |-> "noop"]
    ELSE IF "emailInput" \notin dom THEN [listeners |-> {"submit"}, ends |-> "throws"]
    ELSE [listeners |-> {"submit", "input"}, ends |-> "ok"]

SubscribeFormInit ==
    /\ sfPc = "load"
    /\ sfPc' = "ready"
    /\ sfListeners' = SubscribeFormInitResult(sfDom).listeners
    /\ outcome' = "init-" \o SubscribeFormInitResult(sfDom).ends
    /\ UNCHANGED <<sfDom, value, wrapClasses, msg, msgClasses, btnDisabled, btnText,
                   focused, calls>>

\* resetState(): both validation classes removed, then setMessage('');
\* a null fieldWrap or messageEl throws at its first use
ResetThrows == "emailWrap" \notin sfDom \/ "formMessage" \notin sfDom

ResetState ==
    /\ wrapClasses' = IF "emailWrap" \in sfDom THEN {} ELSE wrapClasses
    /\ msg' = IF ResetThrows THEN msg ELSE NoMsg
    /\ msgClasses' = IF ResetThrows THEN msgClasses ELSE {}

\* the user edits the field; the input listener, when attached, runs resetState
InputEvent ==
    /\ sfPc = "ready"
    /\ "emailInput" \in sfDom
    /\ \E v \in Inputs : v # value /\ value' = v
    /\ IF "input" \in sfListeners
       THEN /\ ResetState
            /\ outcome' = IF ResetThrows THEN "throws" ELSE "reset"
       ELSE UNCHANGED <<wrapClasses, msg, msgClasses, outcome>>
    /\ UNCHANGED <<sfDom, sfPc, sfListeners, btnDisabled, btnText, focused, calls>>

\* submitBtn.disabled = true
LoadingDisabled == TRUE

\* onSubmit up to the await. The host dispatches no submit event through a
\* disabled submit button (neither a click nor the Enter key submits then).
SubmitEvent ==
    /\ sfPc = "ready"
    /\ "submit" \in sfListeners
    /\ ~("subscribeBtn" \in sfDom /\ btnDisabled)
    /\ UNCHANGED <<sfDom, sfPc, sfListeners>>
    /\ LET email == Trim(value) IN
       IF ResetThrows \/ "emailInput" \notin sfDom
       THEN \* resetState() or emailInput.value throws
            /\ ResetState
            /\ outcome' = "throws"
            /\ UNCHANGED <<value, btnDisabled, btnText, focused, calls>>
       ELSE IF email = <<>> \/ ~isValidEmail(email)
       THEN \* client-side validation fails
            /\ wrapClasses' = {"is-error"}
            /\ msg' = IF email = <<>> THEN EmptyMsg ELSE FormatMsg
            /\ msgClasses' = MessageClasses("error")
            /\ focused' = TRUE
            /\ outcome' = IF email = <<>> THEN "invalid-empty" ELSE "invalid-format"
            /\ UNCHANGED <<value, btnDisabled, btnText, calls>>
       ELSE IF "subscribeBtn" \notin sfDom
       THEN \* submitBtn.disabled = true throws on null
            /\ wrapClasses' = {}
            /\ msg' = NoMsg
            /\ msgClasses' = {}
            /\ outcome' = "throws"
            /\ UNCHANGED <<value, btnDisabled, btnText, focused, calls>>
       ELSE IF "btnText" \notin sfDom
       THEN \* the control is disabled, then querySelector(...) is null and throws
            /\ wrapClasses' = {}
            /\ msg' = NoMsg
            /\ msgClasses' = {}
            /\ btnDisabled' = LoadingDisabled
            /\ outcome' = "throws"
            /\ UNCHANGED <<value, btnText, focused, calls>>
       ELSE \* loading state, then sendToApi(email)
            /\ wrapClasses' = {}
            /\ btnDisabled' = LoadingDisabled
            /\ btnText' = "Sending..."
            /\ msg' = SendingMsg
            /\ msgClasses' = MessageClasses("") \cup {"is-visible"}
            /\ calls' = Append(calls, email)
            /\ outcome' = "sent"
            /\ UNCHANGED <<value, focused>>

\* a mutation of the finally block: the control stays disabled
FinallyDisabled_Kept == btnDisabled

\* finally { submitBtn.disabled = false; ... }
FinallyDisabled == FALSE

\* a mutation of the success branch: the field is not cleared
ClearedValue_Kept == value

\* emailInput.value = ''
ClearedValue == <<>>

\* fieldWrap.classList.add('is-valid')
SuccessClass == "is-valid"

\* a mutation of the failure branch: the connectivity text shown for a remote refusal
FailureMessage_Lost(result) == LostMsg

\* setMessage(result.message, 'error')
FailureMessage(result) == result.message

\* onSubmit after the await, the promise resolved with result
Resolved(result) ==
    /\ IF result.ok
       THEN /\ wrapClasses' = wrapClasses \cup {SuccessClass}
            /\ msg' = result.message
            /\ msgClasses' = MessageClasses("success")
            /\ value' = ClearedValue
       ELSE /\ wrapClasses' = wrapClasses \cup {"is-error"}
            /\ msg' = FailureMessage(result)
            /\ msgClasses' = MessageClasses("error")
            /\ UNCHANGED value
    /\ btnDisabled' = FinallyDisabled
    /\ btnText' = "Notify Me"

\* the mock's timer fires and the promise resolves
ApiResolve ==
    /\ calls # <<>>
    /\ \E success \in BOOLEAN :
        /\ Resolved(ApiResult(Head(calls), success))
        /\ outcome' = IF success THEN "ok" ELSE "not-ok"
    /\ calls' = Tail(calls)
    /\ UNCHANGED <<sfDom, sfPc, sfListeners, focused>>

\* the promise rejects, as the fetch() the comment of sendToApi asks for may: catch, finally
ApiReject ==
    /\ calls # <<>>
    /\ wrapClasses' = wrapClasses \cup {"is-error"}
    /\ msg' = LostMsg
    /\ msgClasses' = MessageClasses("error")
    /\ btnDisabled' = FinallyDisabled
    /\ btnText' = "Notify Me"
    /\ outcome' = "rejected"
    /\ calls' = Tail(calls)
    /\ UNCHANGED <<sfDom, sfPc, sfListeners, value, focused>>

ApiSettle == ApiResolve \/ ApiReject

SubscribeFormInit0 ==
    /\ sfDom \in SUBSET SfIds
    /\ sfPc = "load"
    /\ sfListeners = {}
    /\ value \in Inputs
    /\ wrapClasses = {}
    /\ msg = NoMsg
    /\ msgClasses = {}
    /\ btnDisabled = FALSE
    /\ btnText = "Notify Me"
    /\ focused = FALSE
    /\ calls = <<>>
    /\ outcome = "none"

\* the form before the page is ready, with every element in place and an empty field
SubscribeFormIdle ==
    /\ sfDom = SfIds
    /\ sfPc = "load"
    /\ sfListeners = {}
    /\ value = <<>>
    /\ wrapClasses = {}
    /\ msg = NoMsg
    /\ msgClasses = {}
    /\ btnDisabled = FALSE
    /\ btnText = "Notify Me"
    /\ focused = FALSE
    /\ calls = <<>>
    /\ outcome = "none"

(***************************************************************************)
(* main.js, 3. ParallaxField                                               *)
(*                                                                         *)
(* Offsets are exact fractions <<numerator, denominator>> in lowest terms  *)
(* with a positive denominator; the page computes them in double           *)
(* precision.  Lengths are in CSS pixels, transforms in hundredths of a    *)
(* pixel (the two decimals toFixed(2) keeps).                              *)
(***************************************************************************)
VARIABLES
    viewport,      \* <<window.innerWidth, window.innerHeight>>
    depthAttrs,    \* data-depth of the elements '.orb[data-depth], .geo[data-depth]' selects
    touchOnly,     \* window.matchMedia('(hover: none)').matches
    elements,      \* the variable elements: Unset, or the data-depth of the elements found
    cx, cy,        \* viewport centre as the module holds it
    currentX, currentY,
    targetX, targetY,
    rafId,         \* the variable rafId, Undefined until requestAnimationFrame returns
    rafPending,    \* handles of the frame requests the host still holds
    rafNext,       \* the handle the host hands out next
    pfListeners,   \* listeners on window, of {"mousemove", "resize"}
    transforms,    \* style.transform of every selected element: NoTransform or <<dx, dy>>
    pointer,       \* observation: clientX, clientY of the last mousemove event
    pfLast,        \* observation: the last event, and whether a handler of the module ran
    pfInits,       \* observation: how often init() has been called
    frames,        \* observation: how often animate() has run
    destroyed      \* observation: destroy() has returned and init() was not called since

pfVars == <<viewport, depthAttrs, touchOnly, elements, cx, cy, currentX, currentY,
            targetX, targetY, rafId, rafPending, rafNext, pfListeners, transforms,
            pointer, pfLast, pfInits, frames, destroyed>>

\* animate callbacks explored
MaxFrames == 2
\* calls of init() explored
MaxInits == 2

\* const LERP = 0.065, as the fraction LerpNum / LerpDen
LerpNum == 13
LerpDen == 200

\* the factor 80 of dx = currentX * depth * 80
DepthScale == 80

\* the default depth 0.05 of el.dataset.depth || 0.05, in hundredths
DefaultDepth == 5

Unset == "undefined"
NoTransform == "none"

Viewports == {<<800, 600>>, <<1600, 1200>>}
Points == {<<0, 0>>, <<800, 600>>, <<1600, 1200>>}
DepthLists == {<<>>, <<"", "0.1">>}

Abs(x) == IF x < 0 THEN -x ELSE x

RECURSIVE GCD(_, _)
GCD(a, b) == IF b = 0 THEN a ELSE GCD(b, a % b)

\* the fraction n / d (d # 0) in lowest terms
Frac(n, d) ==
    LET g == GCD(Abs(n), Abs(d))
        sg == IF d < 0 THEN -1 ELSE 1
    IN <<sg * (n \div g), sg * (d \div g)>>

Zero == <<0, 1>>

LCM(a, b) == (a \div GCD(a, b)) * b

FracLeq(a, b) == a[1] * b[2] <= b[1] * a[2]

\* a mutation of lerp: the factor applied to the target, not to the difference
lerp_NoDifference(a, b) ==
    LET l == LCM(a[2], b[2])
        A == a[1] * (l \div a[2])
        B == b[1] * (l \div b[2])
    IN Frac(LerpDen * A + LerpNum * B, LerpDen * l)

\* lerp(a, b, LERP) = a + (b - a) * LERP
lerp(a, b) ==
    LET l == LCM(a[2], b[2])
        A == a[1] * (l \div a[2])
        B == b[1] * (l \div b[2])
    IN Frac(LerpDen * A + LerpNum * (B - A), LerpDen * l)

\* parseFloat(el.dataset.depth || 0.05), in hundredths
ParseDepth(attr) ==
    IF attr = "" THEN DefaultDepth
    ELSE IF attr = "0.1" THEN 10
    ELSE 0

\* (c * depth * 80).toFixed(2) in hundredths of a pixel, for depth in hundredths:
\* c * depth * 80 rounded to the nearest integer, computed without large products
Hundredths(c, depth) ==
    LET n == c[1]
        d == c[2]
        q == n \div d
        r == n % d
        q1 == (r * DepthScale) \div d
        r1 == (r * DepthScale) % d
        q2 == (r1 * depth) \div d
        r2 == (r1 * depth) % d
    IN q * DepthScale * depth + q1 * depth + q2 + (IF 2 * r2 >= d THEN 1 ELSE 0)

\* the transform animate() writes on an element of the given data-depth
Transform(attr, x, y) == <<Hundredths(x, ParseDepth(attr)), Hundredths(y, ParseDepth(attr))>>

\* (e.clientX - cx) / cx
Normalise(coord, centre) == Frac(coord - centre, centre)

\* a mutation of init: the hover check left out
InitReturnsEarly_NoTouchCheck(found) == Len(found) = 0

\* if (!elements.length || isTouchOnly()) return
InitReturnsEarly(found) == Len(found) = 0 \/ touchOnly

\* ParallaxField.init()
ParallaxInit ==
    /\ pfInits < MaxInits
    /\ pfInits' = pfInits + 1
    /\ elements' = depthAttrs
    /\ destroyed' = FALSE
    /\ pfLast' = <<"init", TRUE>>
    /\ IF InitReturnsEarly(depthAttrs)
       THEN UNCHANGED <<pfListeners, rafId, rafPending, rafNext>>
       ELSE /\ pfListeners' = pfListeners \cup {"mousemove", "resize"}
            /\ rafId' = rafNext
            /\ rafPending' = rafPending \cup {rafNext}
            /\ rafNext' = rafNext + 1
    /\ UNCHANGED <<viewport, depthAttrs, touchOnly, cx, cy, currentX, currentY,
                   targetX, targetY, transforms, pointer, frames>>

\* ParallaxField.destroy(): cancelAnimationFrame ignores a handle that names no request
ParallaxDestroy ==
    /\ pfListeners' = pfListeners \ {"mousemove", "resize"}
    /\ rafPending' = rafPending \ {rafId}
    /\ destroyed' = TRUE
    /\ pfLast' = <<"destroy", TRUE>>
    /\ UNCHANGED <<viewport, depthAttrs, touchOnly, elements, cx, cy, currentX, currentY,
                   targetX, targetY, rafId, rafNext, transforms, pointer, pfInits, frames>>

\* the pointer moves inside the viewport; onMouseMove runs when it is attached
MouseMove ==
    /\ \E pt \in Points :
        /\ pt[1] <= viewport[1] /\ pt[2] <= viewport[2]
        /\ pointer' = pt
        /\ IF "mousemove" \in pfListeners
           THEN /\ targetX' = Normalise(pt[1], cx)
                /\ targetY' = Normalise(pt[2], cy)
           ELSE UNCHANGED <<targetX, targetY>>
    /\ pfLast' = <<"mousemove", "mousemove" \in pfListeners>>
    /\ UNCHANGED <<viewport, depthAttrs, touchOnly, elements, cx, cy, currentX, currentY,
                   rafId, rafPending, rafNext, pfListeners, transforms, pfInits, frames,
                   destroyed>>

\* the window is resized; onResize runs when it is attached
Resize ==
    /\ \E v \in Viewports :
        /\ v # viewport
        /\ viewport' = v
        /\ IF "resize" \in pfListeners
           THEN cx' = v[1] \div 2 /\ cy' = v[2] \div 2
           ELSE UNCHANGED <<cx, cy>>
    /\ pfLast' = <<"resize", "resize" \in pfListeners>>
    /\ UNCHANGED <<depthAttrs, touchOnly, elements, currentX, currentY, targetX, targetY,
                   rafId, rafPending, rafNext, pfListeners, transforms, pointer, pfInits,
                   frames, destroyed>>

\* the host runs one requested frame callback: animate()
Animate ==
    /\ frames < MaxFrames
    /\ frames' = frames + 1
    /\ \E h \in rafPending :
        /\ currentX' = lerp(currentX, targetX)
        /\ currentY' = lerp(currentY, targetY)
        /\ transforms' = [i \in 1..Len(elements) |->
                              Transform(elements[i], currentX', currentY')]
        /\ rafId' = rafNext
        /\ rafPending' = (rafPending \ {h}) \cup {rafNext}
        /\ rafNext' = rafNext + 1
    /\ pfLast' = <<"frame", TRUE>>
    /\ UNCHANGED <<viewport, depthAttrs, touchOnly, elements, cx, cy, targetX, targetY,
                   pfListeners, pointer, pfInits, destroyed>>

\* the module after the script has run: cx and cy read from the window at that time
ParallaxInit0 ==
    /\ viewport \in Viewports
    /\ depthAttrs \in DepthLists
    /\ touchOnly \in BOOLEAN
    /\ elements = Unset
    /\ cx = viewport[1] \div 2
    /\ cy = viewport[2] \div 2
    /\ currentX = Zero /\ currentY = Zero
    /\ targetX = Zero /\ targetY = Zero
    /\ rafId = Undefined
    /\ rafPending = {}
    /\ rafNext = 1
    /\ pfListeners = {}
    /\ transforms = [i \in 1..Len(depthAttrs) |-> NoTransform]
    /\ pointer = <<0, 0>>
    /\ pfLast = <<"none", FALSE>>
    /\ pfInits = 0
    /\ frames = 0
    /\ destroyed = FALSE

\* the module on a page with one depth-tagged element and a mouse, before init()
ParallaxIdle ==
    /\ viewport = <<800, 600>>
    /\ depthAttrs = <<"0.1">>
    /\ touchOnly = FALSE
    /\ elements = Unset
    /\ cx = 400 /\ cy = 300
    /\ currentX = Zero /\ currentY = Zero
    /\ targetX = Zero /\ targetY = Zero
    /\ rafId = Undefined
    /\ rafPending = {}
    /\ rafNext = 1
    /\ pfListeners = {}
    /\ transforms = <<NoTransform>>
    /\ pointer = <<0, 0>>
    /\ pfLast = <<"none", FALSE>>
    /\ pfInits = 0
    /\ frames = 0
    /\ destroyed = FALSE

(***************************************************************************)
(* main.js, 2. OrbInit                                                     *)
(*                                                                         *)
(* Math.random() is a number of thousandths, k / 1000 with 0 <= k < 1000;  *)
(* durations and delays are in tenths (the decimal toFixed(1) keeps).      *)
(***************************************************************************)
VARIABLES
    orbCount,      \* how many elements '.orb, .geo' selects
    orbProps       \* per element: Unset, or --orb-duration and --orb-delay as init() wrote them

orbVars == <<orbCount, orbProps>>

\* elements '.orb, .geo' explored
MaxOrbs == 1

\* what Math.random() returns, in thousandths
Randoms == {0, 500, 999}

\* Utils.randBetween(min, max) for Math.random() = k / 1000, in thousandths
randBetween(k, min, max) == k * (max - min) + 1000 * min

\* x.toFixed(1) for x >= 0 in thousandths, in tenths
ToFixed1(x) == (x + 50) \div 100

\* properties with the delay written without its sign
OrbStyle_PositiveDelay(k1, k2) ==
    [duration |-> ToFixed1(randBetween(k1, 10, 26)),
     delay |-> <<"+", ToFixed1(randBetween(k2, 0, 12))>>]

\* the properties init() gives one element when Math.random() returns k1, then k2:
\* --orb-duration: `${duration}s`, --orb-delay: `-${delay}s`
OrbStyle(k1, k2) ==
    [duration |-> ToFixed1(randBetween(k1, 10, 26)),
     delay |-> <<"-", ToFixed1(randBetween(k2, 0, 12))>>]

\* OrbInit.init()
OrbInit ==
    /\ orbProps' \in [1..orbCount -> {OrbStyle(k1, k2) : k1 \in Randoms, k2 \in Randoms}]
    /\ UNCHANGED orbCount

\* '.orb, .geo' selects every depth-tagged element ('.orb[data-depth], .geo[data-depth]')
\* and the orbs without data-depth, of which up to MaxOrbs are explored
OrbInit0 ==
    /\ orbCount \in {Len(depthAttrs) + plain : plain \in 0..MaxOrbs}
    /\ orbProps = [i \in 1..orbCount |-> Unset]

(***************************************************************************)
(* main.js, 5. GearSwitcher and 6. CopyrightYear                           *)
(*                                                                         *)
(* A path is a sequence of "/" and of names that hold no "/".              *)
(***************************************************************************)
VARIABLES
    gsDom,         \* which of gearSwitcher, gearBtn, gearPanel the document holds
    links,         \* href of every .gear-switcher__item of the panel, NoHref without the attribute
    pathname,      \* window.location.pathname
    gsListeners,   \* listeners init() attached: "btn-click", "doc-click", "doc-keydown"
    isOpen,        \* the switcher has the class is-open
    ariaExpanded,  \* aria-expanded of the button
    ariaHidden,    \* aria-hidden of the panel
    active,        \* the links that have the class is-active
    gsBtnInside,   \* the button is a descendant of the switcher root
    gsLast,        \* observation: the last event dispatched and the functions its listeners called
    hasCopyright,  \* the document holds copyrightYear
    copyrightText  \* its textContent

gsVars == <<gsDom, links, pathname, gsListeners, isOpen, ariaExpanded, ariaHidden, active,
           gsBtnInside, gsLast>>
cyVars == <<hasCopyright, copyrightText>>

\* links of the panel explored
MaxLinks == 2

GsIds == {"gearSwitcher", "gearBtn", "gearPanel"}

NoHref == <<"null">>
Hrefs == {<<"index-01.html">>, <<"themes", "/", "index-02.html">>, NoHref}
Pathnames == {<<"/">>, <<"/", "themes", "/", "index-02.html">>}

RECURSIVE LastSegment(_)
\* path.split('/').pop()
LastSegment(path) ==
    IF path = <<>> \/ path[Len(path)] = "/" THEN <<>>
    ELSE Append(LastSegment(SubSeq(path, 1, Len(path) - 1)), path[Len(path)])

\* window.location.pathname.split('/').pop() || 'index-01.html'
CurrentFile(path) ==
    IF LastSegment(path) = <<>> THEN <<"index-01.html">> ELSE LastSegment(path)

\* the index of the first link without href, at which highlightCurrentPage throws; 0 if none
FirstBadLink(ls) ==
    IF \E i \in 1..Len(ls) : ls[i] = NoHref
    THEN CHOOSE i \in 1..Len(ls) : ls[i] = NoHref /\ \A j \in 1..(i - 1) : ls[j] # NoHref
    ELSE 0

\* a highlight that marks every link
Highlighted_All(ls, path, before) == 1..Len(ls)

\* highlightCurrentPage(): is-active toggled on every link up to the first one without href
Highlighted(ls, path, before) ==
    LET stop == IF FirstBadLink(ls) = 0 THEN Len(ls) ELSE FirstBadLink(ls) - 1 IN
    {i \in 1..stop : LastSegment(ls[i]) = CurrentFile(path)} \cup {i \in before : i > stop}

\* GearSwitcher.init(): "noop" without the switcher; "throws" on a null button, a
\* null panel or a link without href; else "ok"
GearInitResult(dom, ls) ==
    IF "gearSwitcher" \notin dom THEN [listeners |-> {}, highlight |-> FALSE, ends |-> "noop"]
    ELSE IF "gearBtn" \notin dom THEN [listeners |-> {}, highlight |-> FALSE, ends |-> "throws"]
    ELSE IF "gearPanel" \notin dom
    THEN [listeners |-> {"btn-click", "doc-click", "doc-keydown"}, highlight |-> FALSE,
          ends |-> "throws"]
    ELSE [listeners |-> {"btn-click", "doc-click", "doc-keydown"}, highlight |-> TRUE,
          ends |-> IF FirstBadLink(ls) = 0 THEN "ok" ELSE "throws"]

GearInit ==
    LET r == GearInitResult(gsDom, links) IN
    /\ gsListeners' = r.listeners
    /\ active' = IF r.highlight THEN Highlighted(links, pathname, active) ELSE active
    /\ UNCHANGED <<gsDom, links, pathname, isOpen, ariaExpanded, ariaHidden, gsBtnInside, gsLast>>

\* no event dispatched yet
NoEvent == [event |-> "none", on |-> "none", ran |-> <<>>]

\* the links the panel holds, none without the panel, any of them carrying is-active
\* in the markup
GearInit0 ==
    /\ gsDom \in SUBSET GsIds
    /\ links \in UNION {[1..n -> Hrefs] : n \in 0..MaxLinks}
    /\ "gearPanel" \notin gsDom => links = <<>>
    /\ pathname \in Pathnames
    /\ gsListeners = {}
    /\ isOpen = FALSE
    /\ ariaExpanded = "false"
    /\ ariaHidden = "true"
    /\ active \in SUBSET (1..Len(links))
    /\ gsBtnInside \in BOOLEAN
    /\ gsLast = NoEvent

\* String(b) for a boolean b
BoolString(b) == IF b THEN "true" ELSE "false"

\* a toggle that leaves aria-hidden as it was
Toggle_StaleHidden ==
    /\ isOpen' = ~isOpen
    /\ ariaExpanded' = BoolString(~isOpen)
    /\ ariaHidden' = ariaHidden

\* toggle(): the class flipped, aria-expanded written, then aria-hidden on the panel;
\* panel.setAttribute throws on a null panel, after the first two writes
Toggle ==
    /\ isOpen' = ~isOpen
    /\ ariaExpanded' = BoolString(~isOpen)
    /\ ariaHidden' = IF "gearPanel" \in gsDom THEN BoolString(isOpen) ELSE ariaHidden

\* close(): the class removed, aria-expanded and aria-hidden written, with the same throw
Close ==
    /\ isOpen' = FALSE
    /\ ariaExpanded' = "false"
    /\ ariaHidden' = IF "gearPanel" \in gsDom THEN "true" ELSE ariaHidden

\* where a click can land: on the button, elsewhere inside the switcher root, outside both
ClickTargets == {"gearBtn", "inside", "outside"}

\* the event targets the document holds
TargetExists(target) ==
    CASE target = "gearBtn" -> "gearBtn" \in gsDom
      [] target = "inside" -> "gearSwitcher" \in gsDom
      [] OTHER -> TRUE

\* switcher.contains(e.target)
SwitcherContains(target) == target = "inside" \/ (target = "gearBtn" /\ gsBtnInside)

\* a button click without e.stopPropagation()
StopsPropagation_Missing == FALSE

\* e.stopPropagation() in the button's listener
StopsPropagation == TRUE

\* the click reaches the document's listener: always, unless the button's listener stopped it
ReachesDocument(target) ==
    ~(target = "gearBtn" /\ "btn-click" \in gsListeners /\ StopsPropagation)

\* a click: the button's listener toggles when the click is on the button, then the
\* document's listener, if the event reaches it, closes when the target is outside
Click ==
    \E target \in ClickTargets :
    LET onBtn == target = "gearBtn" /\ "btn-click" \in gsListeners
        onDoc == /\ "doc-click" \in gsListeners
                 /\ ReachesDocument(target)
                 /\ ~SwitcherContains(target)
    IN /\ TargetExists(target)
       /\ gsLast' = [event |-> "click", on |-> target,
                     ran |-> (IF onBtn THEN <<"toggle">> ELSE <<>>)
                             \o (IF onDoc THEN <<"close">> ELSE <<>>)]
       /\ IF onDoc THEN Close
          ELSE IF onBtn THEN Toggle
          ELSE UNCHANGED <<isOpen, ariaExpanded, ariaHidden>>
       /\ UNCHANGED <<gsDom, links, pathname, gsListeners, active, gsBtnInside>>

\* e.key of the key presses tried
PressedKeys == {"Escape", "Enter"}

\* a keydown anywhere: the document's listener closes on Escape
Keydown ==
    \E key \in PressedKeys, target \in ClickTargets :
    LET onDoc == "doc-keydown" \in gsListeners /\ key = "Escape" IN
    /\ TargetExists(target)
    /\ gsLast' = [event |-> key, on |-> target, ran |-> IF onDoc THEN <<"close">> ELSE <<>>]
    /\ IF onDoc THEN Close ELSE UNCHANGED <<isOpen, ariaExpanded, ariaHidden>>
    /\ UNCHANGED <<gsDom, links, pathname, gsListeners, active, gsBtnInside>>

\* CopyrightYear.init(): new Date().getFullYear() written when the element exists
CopyrightInit ==
    /\ copyrightText' = IF hasCopyright THEN "getFullYear()" ELSE copyrightText
    /\ UNCHANGED hasCopyright

CopyrightInit0 ==
    /\ hasCopyright \in BOOLEAN
    /\ copyrightText = ""

(***************************************************************************)
(* main.js, 7. Boot                                                        *)
(***************************************************************************)
VARIABLES
    bootPc,        \* "load": DOMContentLoaded not fired yet; "done": the handler has run
    bootRan,       \* observation: the initializers the handler called
    bootThrew      \* observation: the initializer whose exception ended the handler, or "none"

bootVars == <<bootPc, bootRan, bootThrew>>

Modules == <<"OrbInit", "ParallaxField", "SubscribeForm", "GearSwitcher", "CopyrightYear">>

\* SubscribeForm.init() throws, which ends the handler before GearSwitcher.init()
FormStopsBoot == SubscribeFormInitResult(sfDom).ends = "throws"

\* GearSwitcher.init() throws, which ends the handler before CopyrightYear.init()
GearStopsBoot == GearInitResult(gsDom, links).ends = "throws"

\* the DOMContentLoaded handler: the five init() calls in order, none of them guarded
Boot ==
    /\ bootPc = "load"
    /\ bootPc' = "done"
    /\ OrbInit
    /\ ParallaxInit
    /\ SubscribeFormInit
    /\ IF FormStopsBoot
       THEN /\ bootRan' = {Modules[i] : i \in 1..3}
            /\ bootThrew' = "SubscribeForm"
            /\ UNCHANGED <<gsVars, cyVars>>
       ELSE /\ GearInit
            /\ IF GearStopsBoot
               THEN /\ bootRan' = {Modules[i] : i \in 1..4}
                    /\ bootThrew' = "GearSwitcher"
                    /\ UNCHANGED cyVars
               ELSE /\ bootRan' = {Modules[i] : i \in 1..5}
                    /\ bootThrew' = "none"
                    /\ CopyrightInit

Boot0 ==
    /\ bootPc = "load"
    /\ bootRan = {}
    /\ bootThrew = "none"

\* a page whose only orbs are its depth-tagged elements, before DOMContentLoaded
OrbIdle == orbCount = Len(depthAttrs) /\ orbProps = [i \in 1..orbCount |-> Unset]

GearIdle ==
    /\ gsDom = GsIds
    /\ links = <<<<"index-01.html">>, <<"themes", "/", "index-02.html">>>>
    /\ pathname = <<"/">>
    /\ gsListeners = {}
    /\ isOpen = FALSE
    /\ ariaExpanded = "false"
    /\ ariaHidden = "true"
    /\ active = {}
    /\ gsBtnInside = TRUE
    /\ gsLast = NoEvent

CopyrightIdle == hasCopyright = TRUE /\ copyrightText = ""

restVars == <<emVars, orbVars, gsVars, cyVars, bootVars>>

RestIdle == EmailIdle /\ OrbIdle /\ GearIdle /\ CopyrightIdle /\ Boot0

vars == <<cdVars, emVars, sfVars, pfVars, orbVars, gsVars, cyVars, bootVars>>

InitCountdown == CountdownInit0 /\ SubscribeFormIdle /\ ParallaxIdle /\ RestIdle

NextCountdown ==
    \/ CountdownInit /\ UNCHANGED <<sfVars, pfVars, restVars>>
    \/ IntervalTick /\ UNCHANGED <<sfVars, pfVars, restVars>>

SpecCountdown == InitCountdown /\ [][NextCountdown]_vars

\* the countdown before the page is ready, on a complete page
CountdownIdle ==
    /\ cdPc = "load"
    /\ cdContainer = TRUE
    /\ cdEls = Keys
    /\ targetDate = TheTarget
    /\ prev = InitialPrev
    /\ intervalId = Undefined
    /\ intervals = {}
    /\ textContent = [k \in Keys |-> InitialText]
    /\ written = {}
    /\ flipped = {}
    /\ ariaLabel = ""
    /\ now = 0
    /\ ticks = 0
    /\ finished = FALSE

InitForm == SubscribeFormInit0 /\ CountdownIdle /\ ParallaxIdle /\ RestIdle

NextForm ==
    \/ SubscribeFormInit /\ UNCHANGED <<cdVars, pfVars, restVars>>
    \/ InputEvent /\ UNCHANGED <<cdVars, pfVars, restVars>>
    \/ SubmitEvent /\ UNCHANGED <<cdVars, pfVars, restVars>>
    \/ ApiResolve /\ UNCHANGED <<cdVars, pfVars, restVars>>
    \/ ApiReject /\ UNCHANGED <<cdVars, pfVars, restVars>>

SpecForm == InitForm /\ [][NextForm]_vars

\* a call in flight settles: the mock's timer fires, a fetch resolves or rejects
SpecFormLive == SpecForm /\ WF_vars(ApiSettle /\ UNCHANGED <<cdVars, pfVars, restVars>>)

InitParallax == ParallaxInit0 /\ CountdownIdle /\ SubscribeFormIdle /\ RestIdle

NextParallax ==
    \/ ParallaxInit /\ UNCHANGED <<cdVars, sfVars, restVars>>
    \/ ParallaxDestroy /\ UNCHANGED <<cdVars, sfVars, restVars>>
    \/ MouseMove /\ UNCHANGED <<cdVars, sfVars, restVars>>
    \/ Resize /\ UNCHANGED <<cdVars, sfVars, restVars>>
    \/ Animate /\ UNCHANGED <<cdVars, sfVars, restVars>>

SpecParallax == InitParallax /\ [][NextParallax]_vars

\* every combination of present and absent elements, the field empty, the window
\* as the script found it, no orb besides the depth-tagged elements
InitBoot ==
    /\ CountdownIdle /\ EmailIdle
    /\ ParallaxInit0 /\ viewport = <<800, 600>>
    /\ SubscribeFormInit0 /\ value = <<>> /\ "btnText" \in sfDom
    /\ OrbInit0 /\ orbCount = Len(depthAttrs)
    /\ GearInit0 /\ gsBtnInside = TRUE
    /\ CopyrightInit0
    /\ Boot0

NextBoot == Boot /\ UNCHANGED <<cdVars, emVars>>

SpecBoot == InitBoot /\ [][NextBoot]_vars

\* any gear switcher, the rest of the page complete: the handler of
\* DOMContentLoaded, and clicks and key presses before and after it
InitGear ==
    /\ CountdownIdle /\ EmailIdle /\ SubscribeFormIdle /\ ParallaxIdle
    /\ OrbIdle /\ CopyrightIdle /\ Boot0
    /\ GearInit0

gearRest == <<cdVars, emVars, sfVars, pfVars, orbVars, cyVars, bootVars>>

NextGear ==
    \/ Boot /\ UNCHANGED <<cdVars, emVars>>
    \/ Click /\ UNCHANGED gearRest
    \/ Keydown /\ UNCHANGED gearRest

SpecGear == InitGear /\ [][NextGear]_vars

\* any number of orbs on a page with any of the form's and footer's elements, the
\* rest of the page complete: the handler of DOMContentLoaded
InitOrb ==
    /\ CountdownIdle /\ EmailIdle /\ ParallaxIdle /\ GearIdle
    /\ SubscribeFormInit0 /\ value = <<>> /\ "btnText" \in sfDom
    /\ CopyrightInit0 /\ Boot0
    /\ OrbInit0

NextOrb == Boot /\ UNCHANGED <<cdVars, emVars>>

SpecOrb == InitOrb /\ [][NextOrb]_vars

\* Utils.isValidEmail called on any string, the page idle
InitEmail ==
    /\ EmailInit0
    /\ CountdownIdle /\ SubscribeFormIdle /\ ParallaxIdle
    /\ OrbIdle /\ GearIdle /\ CopyrightIdle /\ Boot0

NextEmail == EmailCall /\ UNCHANGED <<cdVars, sfVars, pfVars, orbVars, gsVars, cyVars, bootVars>>

SpecEmail == InitEmail /\ [][NextEmail]_vars

(***************************************************************************)
(* Properties of the countdown (SpecCountdown)                             *)
(***************************************************************************)
Zeros == [k \in Keys |-> <<"0", "0">>]

\* C1: once a tick has observed remaining <= 0, the repeating schedule is
\* cancelled, so that no further tick runs, whichever tick observed it (the
\* first one, run by init(), or a scheduled one).
C1_FinishedCancelsSchedule == finished => intervals = {}

\* C2: from the tick that first observes current time >= target on, the four
\* digit displays read "00" and the container's label announces the launch,
\* in every later state.
C2_FinishedStaysFinished ==
    finished => textContent = Zeros /\ ariaLabel = "We have launched!"

(***************************************************************************)
(* Properties of the subscribe form (SpecForm, SpecFormLive)               *)
(***************************************************************************)
\* C3: a submission that passed validation and disabled the submit control
\* leads to the control enabled again with the label 'Notify Me' and no call
\* left in flight, however the call settles (ok, not ok, rejected).
C3_SubmitEventuallyReenables ==
    (calls # <<>> /\ btnDisabled) ~> (calls = <<>> /\ ~btnDisabled /\ btnText = "Notify Me")

\* C3, its case reached: a rejected call has re-enabled the control.
C3_Witness ==
    outcome = "rejected" /\ calls = <<>> /\ ~btnDisabled /\ btnText = "Notify Me"

\* C4: a submission whose trimmed input is empty or fails the format check
\* marks the field invalid, shows an error message (the empty-input message
\* before the format message), makes no remote call and leaves the submit
\* control enabled with its label; a call is made for a well-formed address only.
C4_ValidationFailure ==
    /\ outcome \in {"invalid-empty", "invalid-format"} =>
          /\ Trim(value) = <<>> \/ ~RegexTest(Trim(value))
          /\ outcome = "invalid-empty" <=> Trim(value) = <<>>
          /\ wrapClasses = {"is-error"}
          /\ msg = (IF Trim(value) = <<>> THEN EmptyMsg ELSE FormatMsg)
          /\ msgClasses = {"is-error", "is-visible"}
          /\ calls = <<>>
          /\ ~btnDisabled
          /\ btnText = "Notify Me"
    /\ outcome = "sent" =>
          /\ calls = <<Trim(value)>>
          /\ Trim(value) # <<>>
          /\ RegexTest(Trim(value))

\* C4, its case reached: a malformed address was refused after the field had
\* been edited.
C4_Witness ==
    /\ outcome = "invalid-format"
    /\ value = <<"a", "@", "b", ".">>
    /\ "is-error" \in wrapClasses

\* C5: when the call resolves with ok = true the attempt ends with the field
\* marked valid and not invalid, the success message shown, the input empty
\* and the submit control enabled.
C5_SuccessEnd ==
    outcome = "ok" =>
        /\ wrapClasses = {"is-valid"}
        /\ msg.id = ListMsg(<<>>).id
        /\ msgClasses = {"is-success", "is-visible"}
        /\ value = <<>>
        /\ ~btnDisabled
        /\ btnText = "Notify Me"

\* C5, its case reached: a call has resolved ok for the address that was sent.
C5_Witness ==
    /\ outcome = "ok"
    /\ msg = ListMsg(<<"a", "@", "b", ".", "c", "o">>)
    /\ "is-valid" \in wrapClasses

\* C6: when the call resolves with ok = false or rejects, the attempt ends
\* with the field marked invalid and not valid, an error message shown (the
\* remote one for a refusal, the connectivity one for a rejection, and the two
\* differ), the input as it was and the submit control enabled.
C6_FailureEnd ==
    [][outcome' \in {"not-ok", "rejected"} /\ calls' # calls =>
          /\ wrapClasses' = {"is-error"}
          /\ msg' = (IF outcome' = "not-ok" THEN ApiResult(Head(calls), FALSE).message
                                            ELSE LostMsg)
          /\ ApiResult(Head(calls), FALSE).message # LostMsg
          /\ msgClasses' = {"is-error", "is-visible"}
          /\ value' = value
          /\ ~btnDisabled'
          /\ btnText' = "Notify Me"]_vars

\* C6, its case reached: the remote refused and the address is still in the field.
C6_Witness ==
    /\ outcome = "not-ok"
    /\ msg = OopsMsg
    /\ value # <<>>
    /\ ~btnDisabled

(***************************************************************************)
(* Properties of the startup sequence (SpecBoot)                           *)
(***************************************************************************)
\* C7: whatever elements the page holds, no initializer throws on a missing
\* collaborator and every one of the five initializers is run.
C7_BootRunsEveryInit ==
    bootPc = "done" =>
        /\ bootThrew = "none"
        /\ bootRan = {Modules[i] : i \in 1..5}

(***************************************************************************)
(* Properties of the parallax field (SpecParallax)                         *)
(***************************************************************************)
\* C8: after destroy() has returned (and until init() is called again) both
\* listeners are removed and no frame request is left, so that no frame,
\* pointer or resize event changes the module's state, whatever calls of
\* init() and destroy() came before.
C8_DestroyHalts == destroyed => pfListeners = {} /\ rafPending = {}

\* C9: where init() finds no depth-tagged element or a touch-only device, it
\* attaches no listener and requests no frame: target, current offset and
\* every transform stay as they were, whatever events follow.
C9_InitNoOp ==
    pfInits > 0 /\ (Len(depthAttrs) = 0 \/ touchOnly) =>
        /\ pfListeners = {}
        /\ rafPending = {}
        /\ targetX = Zero /\ targetY = Zero
        /\ currentX = Zero /\ currentY = Zero
        /\ \A i \in 1..Len(transforms) : transforms[i] = NoTransform

\* C9, its case reached: init() on a touch-only device with depth-tagged
\* elements, and the pointer has moved since.
C9_Witness ==
    /\ pfInits > 0
    /\ touchOnly
    /\ Len(depthAttrs) > 0
    /\ pfLast = <<"mousemove", FALSE>>
    /\ pointer = <<800, 600>>

\* C10: after a pointer-move event the module handled, the target on each axis
\* is (pointerCoord - centre) / centre for the centre of the viewport as it is
\* now, and lies in [-1, 1].
C10_TargetNormalised ==
    pfLast = <<"mousemove", TRUE>> =>
        /\ targetX = Frac(2 * pointer[1] - viewport[1], viewport[1])
        /\ targetY = Frac(2 * pointer[2] - viewport[2], viewport[2])
        /\ FracLeq(<<-1, 1>>, targetX) /\ FracLeq(targetX, <<1, 1>>)
        /\ FracLeq(<<-1, 1>>, targetY) /\ FracLeq(targetY, <<1, 1>>)

\* the numerator of the fraction a over the denominator l, a multiple of a's own
Scaled(a, l) == a[1] * (l \div a[2])

\* one axis of a frame: from current a with target b to current c
\*   c = a + (b - a) * 0.065, c lies between a and b, and c is nearer to b than a was
LerpStep(a, b, c) ==
    LET l == LCM(LCM(a[2], b[2]), c[2])
        A == Scaled(a, l)
        B == Scaled(b, l)
        C == Scaled(c, l)
    IN /\ ((B - A) * LerpNum) % LerpDen = 0
       /\ C - A = ((B - A) * LerpNum) \div LerpDen
       /\ (A <= C /\ C <= B) \/ (B <= C /\ C <= A)
       /\ Abs(B - C) <= Abs(B - A)
       /\ A # B => Abs(B - C) < Abs(B - A)

\* C11: every frame sets current' = current + (target - current) * 0.065 on each
\* axis, so current' lies between the previous current and the target and is
\* nearer to the target (strictly, unless it was there); the current offset
\* changes in frames only, never on a pointer, resize, init or destroy event.
C11_Smoothing ==
    [][IF frames' # frames
       THEN LerpStep(currentX, targetX, currentX') /\ LerpStep(currentY, targetY, currentY')
       ELSE currentX' = currentX /\ currentY' = currentY]_vars

\* C11, its case reached: after two frames the current offset is on its way to
\* a target the pointer has set, and has not reached it.
C11_Witness ==
    /\ frames = 2
    /\ pfLast = <<"frame", TRUE>>
    /\ targetX = <<1, 1>>
    /\ currentX # Zero
    /\ currentX # targetX

\* the whole seconds left at the clock reading n, for a valid target still in the future
Remaining(n) == (targetDate - n) \div 1000

\* the components c decompose the whole-second count R
Decomposes(c, R) ==
    /\ c.d = R \div 86400
    /\ c.h = (R % 86400) \div 3600
    /\ c.m = (R % 3600) \div 60
    /\ c.s = R % 60
    /\ c.h < 24 /\ c.m < 60 /\ c.s < 60
    /\ c.d >= 0 /\ c.h >= 0 /\ c.m >= 0 /\ c.s >= 0
    /\ c.d * 86400 + c.h * 3600 + c.m * 60 + c.s = R
    /\ R = 90061 => c = [d |-> 1, h |-> 1, m |-> 1, s |-> 1]

\* C12: every tick that finds a valid target with time remaining computes, for the
\* whole-second count R it observes, days = floor(R / 86400), hours =
\* floor((R mod 86400) / 3600), minutes = floor((R mod 3600) / 60) and seconds =
\* R mod 60, with hours < 24, minutes < 60, seconds < 60, recomposing to exactly R
C12_Decomposition ==
    [][(ticks' # ticks /\ targetDate # NaN /\ targetDate - now' > 0)
          => Decomposes(prev', Remaining(now'))]_vars

\* a tick has decomposed 90061 seconds into 1 day, 1 hour, 1 minute and 1 second
C12_Witness ==
    /\ ticks >= 1
    /\ targetDate # NaN
    /\ Remaining(now) = 90061
    /\ prev = [d |-> 1, h |-> 1, m |-> 1, s |-> 1]

\* the tick that read the clock at n took the running branch and computed components
RunningTick(n) == ~IsFinished(Diff(targetDate, n))

\* C13 as stated: on every tick, a display is written or its flip retriggered only if
\* the component's value differs from the value computed on the previous tick; a
\* component whose value is unchanged is left untouched
C13_EveryTick ==
    [][ticks' # ticks
          => \A k \in Keys :
                /\ (k \in written' \/ k \in flipped') => prev'[k] # prev[k]
                /\ prev'[k] = prev[k] => (k \notin written' /\ k \notin flipped')]_vars

\* C13 amended: on a tick that finds time remaining for a valid target, a display is
\* written, and its flip retriggered, exactly when the component's value differs from
\* the one the previous such tick computed (or from the initial -1), and the other
\* displays keep their text; the finishing tick writes 00 into all four displays
\* whatever they showed and retriggers no flip; with an unparsable target every tick
\* rewrites all four displays with NaN and retriggers all four flips
C13_UpdatePolicy ==
    [][ticks' # ticks
          => IF ~RunningTick(now')
             THEN /\ written' = Keys
                  /\ flipped' = {}
                  /\ \A k \in Keys : textContent'[k] = <<"0", "0">>
             ELSE IF targetDate = NaN
             THEN /\ written' = Keys
                  /\ flipped' = Keys
                  /\ \A k \in Keys : textContent'[k] = <<"N", "a", "N">>
             ELSE \A k \in Keys :
                     /\ k \in written' <=> prev'[k] # prev[k]
                     /\ k \in flipped' <=> k \in written'
                     /\ k \notin written' => textContent'[k] = textContent[k]]_vars

\* a later tick has changed the seconds and left days, hours and minutes alone
C13_Witness ==
    /\ ticks >= 2
    /\ targetDate # NaN
    /\ RunningTick(now)
    /\ written = {"s"}
    /\ flipped = {"s"}
    /\ prev = [d |-> 0, h |-> 0, m |-> 1, s |-> 0]
    /\ textContent["s"] = <<"0", "0">>
    /\ textContent["m"] = <<"0", "1">>

\* the step dispatched an event to the listeners init() attached
GearEvent == gsLast'.event # "none" /\ gsListeners # {}

\* C14: once init() has attached the listeners, each click on the trigger flips the
\* open state exactly once, by one call of toggle and no call of close in the same
\* event; a click whose target is outside the switcher root leaves the panel closed;
\* Escape leaves the panel closed whatever the event target and the state before
C14_ClickAndEscape ==
    [][GearEvent =>
          /\ (gsLast'.event = "click" /\ gsLast'.on = "gearBtn")
                => (isOpen' = ~isOpen /\ gsLast'.ran = <<"toggle">>)
          /\ (gsLast'.event = "click" /\ gsLast'.on = "outside")
                => (~isOpen' /\ gsLast'.ran = <<"close">>)
          /\ gsLast'.event = "Escape"
                => (~isOpen' /\ gsLast'.ran = <<"close">>)]_vars

\* a click on a trigger that is not inside the switcher root has opened the panel
C14_Witness ==
    /\ gsListeners # {}
    /\ ~gsBtnInside
    /\ gsLast = [event |-> "click", on |-> "gearBtn", ran |-> <<"toggle">>]
    /\ isOpen

\* C15: after every toggle or close, in any sequence of trigger clicks, outside
\* clicks and Escape presses, aria-expanded of the trigger equals the open state (the
\* is-open class of the root) and aria-hidden of the panel, on a page that has the
\* panel, equals its negation
C15_AriaMirrorsOpen ==
    gsLast.ran # <<>>
       => /\ ariaExpanded = BoolString(isOpen)
          /\ "gearPanel" \in gsDom => ariaHidden = BoolString(~isOpen)

\* a trigger click has opened the panel of a complete switcher
C15_Witness ==
    /\ GsIds \subseteq gsDom
    /\ gsLast.ran = <<"toggle">>
    /\ isOpen
    /\ ariaExpanded = "true"
    /\ ariaHidden = "false"

\* the link i points at a file named as the current page's file
MatchesPage(i) == LastSegment(links[i]) = CurrentFile(pathname)

\* init() ran highlightCurrentPage()
HighlightRan == bootPc = "done" /\ GearInitResult(gsDom, links).highlight

\* C16 as stated: after initialization at most one link is marked active, and a marked
\* link is one whose target filename equals the current page's filename
C16_AtMostOneActive ==
    HighlightRan => /\ Cardinality(active) <= 1
                    /\ \A i \in active : MatchesPage(i)

\* the links the loop of highlightCurrentPage() visits: those before the first one
\* without href
Visited == 1..(IF FirstBadLink(links) = 0 THEN Len(links) ELSE FirstBadLink(links) - 1)

\* C16 amended: initialization marks a link it visits exactly when the link's target
\* filename equals the current page's filename, and leaves every link it does not
\* visit (from the first link without href on, or all of them when init() stops
\* before the highlight) marked as the markup had it; so when every link has an href
\* and the filenames are pairwise different, at most one link is marked; clicks and
\* key presses never change the marks
C16_ActiveIffMatches ==
    [][IF bootPc = "load" /\ bootPc' = "done"
       THEN IF GearInitResult(gsDom, links).highlight
            THEN /\ \A i \in Visited : i \in active' <=> MatchesPage(i)
                 /\ \A i \in (1..Len(links)) \ Visited : i \in active' <=> i \in active
                 /\ (/\ FirstBadLink(links) = 0
                     /\ \A i, j \in 1..Len(links) :
                           i # j => LastSegment(links[i]) # LastSegment(links[j]))
                       => Cardinality(active') <= 1
            ELSE active' = active
       ELSE active' = active]_vars

\* two links to the same file are both marked on that file's page
C16_Witness ==
    /\ HighlightRan
    /\ Len(links) >= 2
    /\ links[1] = links[2]
    /\ links[1] # NoHref
    /\ MatchesPage(1)
    /\ {1, 2} \subseteq active

\* the positions of the character c in the string s
Positions(s, c) == {k \in 1..Len(s) : s[k] = c}

\* s has the form local@domain.tld: no white space, exactly one '@' with a local part
\* before it, a dot in the domain with a name before it, and 2 or more characters
\* after the last dot
WellFormed(s) ==
    /\ \A k \in 1..Len(s) : s[k] \notin WhiteSpace
    /\ Cardinality(Positions(s, "@")) = 1
    /\ LET at == CHOOSE k \in Positions(s, "@") : TRUE
           dots == {k \in Positions(s, ".") : k > at}
       IN /\ at > 1
          /\ dots # {}
          /\ LET last == CHOOSE k \in dots : \A m \in dots : m <= k
             IN last > at + 1 /\ Len(s) - last >= 2

\* C17: isValidEmail accepts a string only if it has the form local@domain.tld with no
\* white space, exactly one '@' and at least 2 characters after the last dot of the
\* domain; "a@b.co" passes and "", "no-at-sign", "a@b" and "a@b." fail
C17_AcceptsOnlyWellFormed ==
    emResult # "none" =>
       /\ emResult = "accepted" => WellFormed(emInput)
       /\ emInput = <<"a", "@", "b", ".", "c", "o">> => emResult = "accepted"
       /\ emInput \in {<<>>, <<"a", "@", "b">>, <<"a", "@", "b", ".">>,
                        <<"n", "o", "-", "a", "t", "-", "s", "i", "g", "n">>}
             => emResult = "rejected"

\* the tenths t are the sample of thousandths x formatted to one decimal place
Rounds(t, x) == Abs(100 * t - x) <= 50

\* C18 as stated: for every element and every sample the duration written lies in
\* [10, 26), the magnitude of the delay written lies in [0, 12), and the delay
\* written is negative
C18_HalfOpenRanges ==
    bootPc = "done" =>
       \A i \in 1..orbCount :
          /\ 100 <= orbProps[i].duration /\ orbProps[i].duration < 260
          /\ 0 <= orbProps[i].delay[2] /\ orbProps[i].delay[2] < 120
          /\ orbProps[i].delay[1] = "-"

\* C18 amended: for every element the duration written is a sample of [10, 26)
\* rounded to one decimal place and lies in [10.0, 26.0], the upper end included; the
\* delay written is the minus sign before a sample of [0, 12) rounded to one decimal
\* place, with magnitude in [0.0, 12.0], the upper end included
C18_ClosedRanges ==
    bootPc = "done" =>
       \A i \in 1..orbCount :
          /\ 100 <= orbProps[i].duration /\ orbProps[i].duration <= 260
          /\ \E k \in Randoms : /\ Rounds(orbProps[i].duration, randBetween(k, 10, 26))
                                /\ 10000 <= randBetween(k, 10, 26)
                                /\ randBetween(k, 10, 26) < 26000
          /\ 0 <= orbProps[i].delay[2] /\ orbProps[i].delay[2] <= 120
          /\ \E k \in Randoms : /\ Rounds(orbProps[i].delay[2], randBetween(k, 0, 12))
                                /\ 0 <= randBetween(k, 0, 12)
                                /\ randBetween(k, 0, 12) < 12000
          /\ orbProps[i].delay[1] = "-"

\* an element has been given the duration 26.0s and the delay -12.0s
C18_Witness ==
    /\ bootPc = "done"
    /\ orbCount >= 1
    /\ orbProps[1] = [duration |-> 260, delay |-> <<"-", 120>>]

\* the submit control is disabled exactly when a remote call is in flight, and at
\* most one call is
DisabledIffInFlight ==
    /\ ("subscribeBtn" \in sfDom /\ btnDisabled) <=> calls # <<>>
    /\ Len(calls) <= 1

\* the step is an input event on the field while a call is in flight
InputDuringCall == calls # <<>> /\ value' # value /\ outcome' = "reset"

\* C19: with submissions dispatched only while the submit control is enabled, in
\* every reachable state the control is disabled if and only if a remote call is in
\* flight, at most one call is in flight, and an input event during a call neither
\* re-enables the control nor cancels the call
C19_DisabledIffInFlight ==
    [][/\ DisabledIffInFlight'
       /\ InputDuringCall => (btnDisabled' /\ calls' = calls)]_vars

\* the decimal digits of n >= 0, with a leading zero below 10
Padded(n) ==
    IF n < 10 THEN <<"0", DigitChar[n + 1]>>
    ELSE IF n < 100 THEN <<DigitChar[(n \div 10) + 1], DigitChar[(n % 10) + 1]>>
    ELSE NumberToString(n)

\* C20: skipping the unchanged digits never leaves a stale display: after every tick
\* that observes remaining > 0, the very first one included, each of the four displays
\* shows the component that tick computed, zero-padded to at least 2 digits, as
\* rewriting every display on every tick would
C20_NoStaleDisplay ==
    [][(ticks' # ticks /\ targetDate # NaN /\ targetDate - now' > 0)
          => \A k \in Keys :
                /\ prev'[k] >= 0
                /\ textContent'[k] = Padded(prev'[k])
                /\ Len(textContent'[k]) >= 2]_vars

\* the first tick found less than a second left and wrote 00 into every display
C20_Witness ==
    /\ ticks = 1
    /\ ~finished
    /\ targetDate # NaN
    /\ targetDate - now > 0
    /\ prev = [k \in Keys |-> 0]
    /\ flipped = Keys
    /\ \A k \in Keys : textContent[k] = <<"0", "0">>

====
